---------------------------- MODULE Spec2Model ----------------------------
(***************************************************************************)
(* Model of gluonts/distribution/beta.py: the Beta distribution (Beta) and *)
(* its output head (BetaOutput).                                           *)
(*                                                                         *)
(* The tensors of the program hold binary floating-point numbers           *)
(* (np.float32 by default).  The model keeps that: a tensor element is a   *)
(* number of a small binary floating-point format with MantBits bits of    *)
(* precision, exponents -EMinNeg .. EMax, gradual underflow, +inf, -inf    *)
(* and NaN, and every arithmetic operation rounds to nearest, ties to      *)
(* even, as IEEE 754 arithmetic does.  float32 is the instance             *)
(* MantBits = 24, EMinNeg = 126, EMax = 127.                               *)
(*                                                                         *)
(* A finite number is held as an integer count of the format's smallest    *)
(* positive number (its "unit", 2^-(EMinNeg + MantBits - 1)); +inf, -inf   *)
(* and NaN are the codes PosInf, NegInf and NaN, outside the finite range. *)
(***************************************************************************)
EXTENDS Integers, Sequences, FiniteSets

(***************************************************************************)
(* Bounds of the floating-point format.                                    *)
(***************************************************************************)
MantBits == 3
EMax == 6
EMinNeg == 8

Pow2(n) == 2^n

\* log2 of the number of units in 1.0
UnitShift == EMinNeg + MantBits - 1
\* the number of binades above the subnormal one
ExpSpan == EMax + EMinNeg
MaxFinite == (Pow2(MantBits) - 1) * Pow2(ExpSpan)
PosInf == MaxFinite + 1
NegInf == 0 - PosInf
NaN == PosInf + 1

One == Pow2(UnitShift)
Two == 2 * One
Half == One \div 2

IsNaN(a) == a = NaN
IsInf(a) == a = PosInf \/ a = NegInf
IsFinite(a) == ~IsNaN(a) /\ ~IsInf(a)
Abs(a) == IF a < 0 THEN 0 - a ELSE a
Sign(a) == IF a < 0 THEN 0 - 1 ELSE 1
Max(a, b) == IF a >= b THEN a ELSE b
Min(a, b) == IF a <= b THEN a ELSE b

\* the finite numbers of the format that are >= 0, in units
RepNonNeg == {m * Pow2(j) : m \in 0 .. (Pow2(MantBits) - 1), j \in 0 .. ExpSpan}
IsFloat(a) == IsNaN(a) \/ IsInf(a) \/ Abs(a) \in RepNonNeg

(***************************************************************************)
(* Rounding.  RoundPos(n, d, J) is the number of the format nearest to the *)
(* positive real (n / d) * 2^J units, ties to even, PosInf on overflow.    *)
(***************************************************************************)
RECURSIVE Normalize(_, _, _)
Normalize(n, d, J) ==
    IF n < d * Pow2(MantBits - 1) THEN Normalize(2 * n, d, J - 1)
    ELSE IF n >= d * Pow2(MantBits) THEN Normalize(n, 2 * d, J + 1)
    ELSE <<n, d, J>>

RoundQuot(n, d) ==
    LET q == n \div d
        r == n % d
    IN  IF 2 * r > d \/ (2 * r = d /\ q % 2 = 1) THEN q + 1 ELSE q

RoundPos(n, d, J) ==
    IF n = 0 THEN 0
    ELSE LET nz == Normalize(n, d, J)
             N == nz[1]
             D == nz[2]
             j == nz[3]
         IN  IF j > ExpSpan THEN PosInf
             ELSE IF j >= 0
                  THEN LET res == RoundQuot(N, D) * Pow2(j)
                       IN  IF res > MaxFinite THEN PosInf ELSE res
             ELSE IF 0 - j > MantBits + 1 THEN 0
             ELSE RoundQuot(N, D * Pow2(0 - j))

\* a finite number > 0 as <<m, j>>: m * 2^j units with m < 2^MantBits
RECURSIVE Decompose(_, _)
Decompose(k, j) ==
    IF k < Pow2(MantBits) THEN <<k, j>> ELSE Decompose(k \div 2, j + 1)

(***************************************************************************)
(* The four operations of the backend's elementwise arithmetic.            *)
(***************************************************************************)
FAdd(a, b) ==
    IF IsNaN(a) \/ IsNaN(b) THEN NaN
    ELSE IF IsInf(a) /\ IsInf(b) THEN (IF a = b THEN a ELSE NaN)
    ELSE IF IsInf(a) THEN a
    ELSE IF IsInf(b) THEN b
    ELSE LET s == a + b
         IN  Sign(s) * RoundPos(Abs(s), 1, 0)

FNeg(a) == IF IsNaN(a) THEN NaN ELSE 0 - a

FSub(a, b) == FAdd(a, FNeg(b))

FMul(a, b) ==
    IF IsNaN(a) \/ IsNaN(b) THEN NaN
    ELSE IF IsInf(a) \/ IsInf(b)
         THEN (IF a = 0 \/ b = 0 THEN NaN ELSE Sign(a) * Sign(b) * PosInf)
    ELSE IF a = 0 \/ b = 0 THEN 0
    ELSE LET da == Decompose(Abs(a), 0)
             db == Decompose(Abs(b), 0)
         IN  Sign(a) * Sign(b)
               * RoundPos(da[1] * db[1], 1, da[2] + db[2] - UnitShift)

FDiv(a, b) ==
    IF IsNaN(a) \/ IsNaN(b) THEN NaN
    ELSE IF IsInf(a) THEN (IF IsInf(b) THEN NaN ELSE Sign(a) * Sign(b) * PosInf)
    ELSE IF IsInf(b) THEN 0
    ELSE IF b = 0 THEN (IF a = 0 THEN NaN ELSE Sign(a) * PosInf)
    ELSE IF a = 0 THEN 0
    ELSE LET da == Decompose(Abs(a), 0)
             db == Decompose(Abs(b), 0)
         IN  Sign(a) * Sign(b)
               * RoundPos(da[1], db[1], da[2] - db[2] + UnitShift)

(***************************************************************************)
(* The backend's transcendental operators (F.log, F.gammaln, F.sqrt and    *)
(* the softrelu activation behind softplus).  Each is a fixed function of  *)
(* its argument.  Its special cases (zeros, poles, NaN, infinities) are    *)
(* those of the C library the backend calls; its finite values are         *)
(* computed in fixed point with FixBits fraction bits and then rounded to  *)
(* the format.                                                             *)
(***************************************************************************)
FixBits == UnitShift + 2
FixOne == Pow2(FixBits)
\* ln 2, log2 e and ln(2 pi)/2 in fixed point
FixLn2 == (FixOne * 6931) \div 10000
FixLog2E == (FixOne * 14427) \div 10000
FixHalfLn2Pi == (FixOne * 9189) \div 10000

\* (x * y) / FixOne without overflowing, for y >= 0
MulFix(x, y) == (x \div FixOne) * y + ((x % FixOne) * y) \div FixOne

\* a finite number in fixed point (exact: FixBits > UnitShift)
ToFix(a) == a * Pow2(FixBits - UnitShift)
\* the number of the format nearest to the fixed-point number x
FromFix(x) == Sign(x) * RoundPos(Abs(x), FixOne, UnitShift)

\* the fraction bits of log2(y / FixOne), FixOne <= y < 2 * FixOne
RECURSIVE Log2Frac(_, _)
Log2Frac(y, i) ==
    IF i > FixBits THEN 0
    ELSE LET y2 == (y * y) \div FixOne
         IN  IF y2 >= 2 * FixOne
             THEN Pow2(FixBits - i) + Log2Frac(y2 \div 2, i + 1)
             ELSE Log2Frac(y2, i + 1)

\* log2(n / FixOne) in fixed point, n > 0
RECURSIVE Log2Fix(_, _)
Log2Fix(n, e) ==
    IF n < FixOne THEN Log2Fix(2 * n, e - 1)
    ELSE IF n >= 2 * FixOne THEN Log2Fix(n \div 2, e + 1)
    ELSE e * FixOne + Log2Frac(n, 1)

\* ln(n / FixOne) in fixed point, n > 0
LnFix(n) == MulFix(Log2Fix(n, 0), FixLn2)

\* exp(-t / FixOne) in fixed point, t >= 0
ExpNegFix(t) ==
    LET u == MulFix(t, FixLog2E)
        n == u \div FixOne
        f == u % FixOne
        c1 == (FixOne * 6931) \div 10000
        c2 == (FixOne * 2402) \div 10000
        c3 == (FixOne * 555) \div 10000
        c4 == (FixOne * 96) \div 10000
        c5 == (FixOne * 13) \div 10000
        h4 == c4 - MulFix(f, c5)
        h3 == c3 - MulFix(f, h4)
        h2 == c2 - MulFix(f, h3)
        h1 == c1 - MulFix(f, h2)
        p2 == FixOne - MulFix(f, h1)
    IN  IF n > FixBits THEN 0 ELSE p2 \div Pow2(n)

\* log(1 + exp(x / FixOne)) in fixed point
SoftplusFix(x) == Max(x, 0) + LnFix(FixOne + ExpNegFix(Abs(x)))

\* sum of ln|v + i| for i = 0 .. N-1, in fixed point (no term is ln 0)
RECURSIVE SumLnFix(_, _)
SumLnFix(v, N) ==
    IF N = 0 THEN 0 ELSE LnFix(Abs(v)) + SumLnFix(v + FixOne, N - 1)

\* Stirling's series for ln Gamma(w / FixOne), w >= 7 * FixOne
StirlingFix(w) ==
    MulFix(w - FixOne \div 2, LnFix(w)) - w + FixHalfLn2Pi
      + (FixOne * FixOne) \div (12 * w)

\* ln |Gamma(v / FixOne)| in fixed point, v not a pole
LGammaFix(v) ==
    LET N == Max(0, 7 - v \div FixOne)
    IN  StirlingFix(v + N * FixOne) - SumLnFix(v, N)

LogOf(a) ==
    IF IsNaN(a) \/ a < 0 THEN NaN
    ELSE IF a = 0 THEN NegInf
    ELSE IF a = PosInf THEN PosInf
    ELSE IF a = One THEN 0
    ELSE LET d == Decompose(a, 0)
         IN  FromFix(LnFix(d[1] * FixOne) + MulFix((d[2] - UnitShift) * FixOne, FixLn2))

GammalnOf(a) ==
    IF IsNaN(a) THEN NaN
    ELSE IF IsInf(a) THEN PosInf
    ELSE IF a <= 0 /\ a % One = 0 THEN PosInf
    ELSE IF a = One \/ a = Two THEN 0
    ELSE FromFix(LGammaFix(ToFix(a)))

SoftplusOf(a) ==
    IF IsNaN(a) THEN NaN
    ELSE IF a = PosInf THEN PosInf
    ELSE IF a = NegInf THEN 0
    ELSE FromFix(SoftplusFix(ToFix(a)))

ISqrt(X) == CHOOSE q \in 0 .. Pow2(2 * MantBits) : q * q <= X /\ (q + 1) * (q + 1) > X

SqrtOf(a) ==
    IF IsNaN(a) \/ a < 0 THEN NaN
    ELSE IF a = 0 \/ a = PosInf THEN a
    ELSE LET d == Decompose(a, 0)
             odd == (d[2] + UnitShift) % 2
             m == d[1] * Pow2(odd)
             h == (d[2] + UnitShift - odd) \div 2
             X == m * Pow2(2 * (MantBits + 1))
             q == ISqrt(X)
             sticky == IF q * q = X THEN 0 ELSE 1
         IN  RoundPos(2 * q + sticky, 2, h - (MantBits + 1))

\* every number of the format
Floats == {NaN, PosInf, NegInf} \cup RepNonNeg \cup {0 - k : k \in RepNonNeg}

\* the operators as the tables of their values
LogTable == [a \in Floats |-> LogOf(a)]
GammalnTable == [a \in Floats |-> GammalnOf(a)]
SoftplusTable == [a \in Floats |-> SoftplusOf(a)]
SqrtTable == [a \in Floats |-> SqrtOf(a)]

FLog(a) == LogTable[a]
FGammaln(a) == GammalnTable[a]
FSoftplus(a) == SoftplusTable[a]
FSqrt(a) == SqrtTable[a]

(***************************************************************************)
(* Tensors.  A tensor is its shape (a tuple of dimensions) and its         *)
(* elements in row-major order.  Binary elementwise operators broadcast    *)
(* their operands as the backend does: shapes are aligned at the right,    *)
(* and a dimension of size 1 is stretched; shapes that do not fit make     *)
(* the operator raise, which is the value Raised here.                     *)
(***************************************************************************)
None == [shape |-> <<>>, data |-> <<>>]
Raised == [shape |-> <<0>>, data |-> <<>>]
IsTensor(t) == t # None /\ t # Raised

RECURSIVE Prod(_)
Prod(s) == IF s = <<>> THEN 1 ELSE Head(s) * Prod(Tail(s))

Tensor(shape, data) == [shape |-> shape, data |-> data]
Fill(shape, v) == Tensor(shape, [i \in 1 .. Prod(shape) |-> v])

PadShape(s, r) ==
    [i \in 1 .. r |-> IF i <= r - Len(s) THEN 1 ELSE s[i - (r - Len(s))]]

Compatible(s1, s2) ==
    LET r == Max(Len(s1), Len(s2))
    IN  \A i \in 1 .. r :
            \/ PadShape(s1, r)[i] = PadShape(s2, r)[i]
            \/ PadShape(s1, r)[i] = 1
            \/ PadShape(s2, r)[i] = 1

BroadcastShape(s1, s2) ==
    LET r == Max(Len(s1), Len(s2))
    IN  [i \in 1 .. r |-> Max(PadShape(s1, r)[i], PadShape(s2, r)[i])]

\* the number of elements one step along axis d spans
Stride(s, d) == Prod(SubSeq(s, d + 1, Len(s)))

RECURSIVE SrcOffset(_, _, _, _)
SrcOffset(i, out, ps, d) ==
    IF d > Len(out) THEN 0
    ELSE (IF ps[d] = 1 THEN 0
          ELSE (((i - 1) \div Stride(out, d)) % out[d]) * Stride(ps, d))
         + SrcOffset(i, out, ps, d + 1)

\* the element of t that lands at place i of the broadcast shape out
At(t, out, i) == t.data[1 + SrcOffset(i, out, PadShape(t.shape, Len(out)), 1)]

BroadcastTo(t, out) == Tensor(out, [i \in 1 .. Prod(out) |-> At(t, out, i)])

Map1(Op(_), t) ==
    IF ~IsTensor(t) THEN Raised
    ELSE Tensor(t.shape, [i \in 1 .. Len(t.data) |-> Op(t.data[i])])

Map2(Op(_, _), a, b) ==
    IF ~IsTensor(a) \/ ~IsTensor(b) THEN Raised
    ELSE IF ~Compatible(a.shape, b.shape) THEN Raised
    ELSE LET out == BroadcastShape(a.shape, b.shape)
         IN  Tensor(out, [i \in 1 .. Prod(out) |-> Op(At(a, out, i), At(b, out, i))])

TAdd(a, b) == Map2(FAdd, a, b)
TSub(a, b) == Map2(FSub, a, b)
TMul(a, b) == Map2(FMul, a, b)
TDiv(a, b) == Map2(FDiv, a, b)
\* t + c, t - c and c - t for a Python scalar c
TAddScalar(t, c) == Map1(LAMBDA v : FAdd(v, c), t)
TSubScalar(t, c) == Map1(LAMBDA v : FSub(v, c), t)
TRSubScalar(c, t) == Map1(LAMBDA v : FSub(c, v), t)
TLog(t) == Map1(FLog, t)
TGammaln(t) == Map1(FGammaln, t)
TSquare(t) == Map1(LAMBDA v : FMul(v, v), t)
TSqrt(t) == Map1(FSqrt, t)
OnesLike(t) == Fill(t.shape, One)

\* t.squeeze(axis=-1): drops the last axis, which must have size 1
SqueezeLast(t) ==
    IF ~IsTensor(t) THEN Raised
    ELSE IF t.shape[Len(t.shape)] # 1 THEN Raised
    ELSE Tensor(SubSeq(t.shape, 1, Len(t.shape) - 1), t.data)

\* p.expand_dims(axis=0).repeat(axis=0, repeats=n)
Stack(rows) ==
    Tensor(<<Len(rows)>> \o rows[1].shape,
           [i \in 1 .. Len(rows) * Len(rows[1].data) |->
               rows[1 + ((i - 1) \div Len(rows[1].data))].data[1 + ((i - 1) % Len(rows[1].data))]])

(***************************************************************************)
(* Beta: the closed forms, as the methods compute them.                    *)
(***************************************************************************)
\* the batch shape as Dirichlet takes it: the shape without its last axis
BatchShapeOfEvent(a) == SubSeq(a.shape, 1, Len(a.shape) - 1)

BatchShapeOf(a) == a.shape

Mean(a, b) == TDiv(a, TAdd(a, b))

\* variance with alpha + beta - 1 in place of alpha + beta + 1
VarianceMinusOne(a, b) ==
    TDiv(TMul(a, b),
         TMul(TSquare(TAdd(a, b)), TSubScalar(TAdd(a, b), One)))

Variance(a, b) ==
    TDiv(TMul(a, b),
         TMul(TSquare(TAdd(a, b)), TAddScalar(TAdd(a, b), One)))

Stddev(a, b) == TSqrt(Variance(a, b))

\* log_prob with the exponents alpha and beta in place of alpha - 1, beta - 1
LogProbWholeExponents(a, b, x) ==
    TAdd(TSub(TSub(TAdd(TMul(a, TLog(x)),
                        TMul(b, TLog(TRSubScalar(One, x)))),
                   TGammaln(a)),
              TGammaln(b)),
         TGammaln(TAdd(a, b)))

\* log_prob of x clipped into the open interval (0, 1)
LogProbClipped(a, b, x) ==
    LET c == Map1(LAMBDA v : IF IsNaN(v) THEN v
                             ELSE Max(1, Min(v, One - Pow2(EMinNeg - 1))), x)
    IN  TAdd(TSub(TSub(TAdd(TMul(TSubScalar(a, One), TLog(c)),
                            TMul(TSubScalar(b, One), TLog(TRSubScalar(One, c)))),
                       TGammaln(a)),
                  TGammaln(b)),
             TGammaln(TAdd(a, b)))

LogProb(a, b, x) ==
    TAdd(TSub(TSub(TAdd(TMul(TSubScalar(a, One), TLog(x)),
                        TMul(TSubScalar(b, One), TLog(TRSubScalar(One, x)))),
                   TGammaln(a)),
              TGammaln(b)),
         TGammaln(TAdd(a, b)))

\* the odds X / Y in place of the ratio X / (X + Y)
GammaOdds(X, Y) == TDiv(X, Y)

\* the inner function s of sample: the ratio of the two Gamma draws
GammaRatio(X, Y) == TDiv(X, TAdd(X, Y))

(***************************************************************************)
(* BetaOutput.domain_map.  Epsilon is the constant 1e-8: a number of the   *)
(* format that 1.0 absorbs (1.0 + Epsilon = 1.0, as in float32) and whose  *)
(* square is still a number of the format.                                 *)
(***************************************************************************)
Epsilon == Pow2(UnitShift - MantBits - 2)

Softplus(t) == Map1(FSoftplus, t)

\* domain_map without the offset
DomainMapNoEpsilon(ra, rb) ==
    <<SqueezeLast(Softplus(ra)), SqueezeLast(Softplus(rb))>>

\* domain_map returning (beta, alpha)
DomainMapSwapped(ra, rb) ==
    <<SqueezeLast(TAddScalar(Softplus(rb), Epsilon)),
      SqueezeLast(TAddScalar(Softplus(ra), Epsilon))>>

DomainMap(ra, rb) ==
    <<SqueezeLast(TAddScalar(Softplus(ra), Epsilon)),
      SqueezeLast(TAddScalar(Softplus(rb), Epsilon))>>

(***************************************************************************)
(* The state.                                                              *)
(*   raw     the two raw tensors of the forward pass (the network's        *)
(*           outputs), which BetaOutput.domain_map is given                *)
(*   params  the pair domain_map returned for them                         *)
(*   alpha, beta, F   the fields of the Beta instance                      *)
(*   ctor    the two tensors the instance's constructor was given          *)
(*   rng     the backend's random-number-generator state: the number of    *)
(*           sample_gamma calls it has served                              *)
(*   last    the last call: its name, its argument, what it returned and   *)
(*           the backend sampler calls it made                             *)
(*   memo    the first call of a method other than sample made on the      *)
(*           current instance (a history variable)                         *)
(***************************************************************************)
VARIABLES raw, params, alpha, beta, F, ctor, rng, last, memo

vars == <<raw, params, alpha, beta, F, ctor, rng, last, memo>>

\* num_samples=None
NoCount == 0 - 1
\* the largest num_samples tried, and the cap on the sampler calls of a run
MaxSamples == 2
MaxRng == 6

Call(op, x, n, out, calls) ==
    [op |-> op, x |-> x, n |-> n, out |-> out, calls |-> calls]
NoCall == Call("none", None, NoCount, None, <<>>)

\* what is remembered of the first call other than sample; again: that call
\* has been made a second time
NoMemo == [op |-> "none", x |-> None, out |-> None, again |-> FALSE]

\* getF: the backend module of a tensor (the model holds NDArrays only)
GetF(t) == "mx.nd"

Exists == IsTensor(alpha)

(***************************************************************************)
(* BetaOutput.domain_map(F, alpha, beta): an exception leaves no result.   *)
(***************************************************************************)
DomainMapCall(ra, rb) ==
    LET out == DomainMap(ra, rb)
        raised == out[1] = Raised \/ out[2] = Raised
    IN  /\ raw' = <<ra, rb>>
        /\ params' = IF raised THEN <<None, None>> ELSE out
        /\ last' = Call("domain_map", None, NoCount,
                        IF raised THEN <<Raised, Raised>> ELSE out, <<>>)
        /\ UNCHANGED <<alpha, beta, F, ctor, rng>>

(***************************************************************************)
(* Beta.__init__(alpha, beta, F): f = "none" is F=None.                    *)
(***************************************************************************)
Construct(a, b, f, how) ==
    /\ alpha' = a
    /\ beta' = b
    /\ F' = IF f # "none" THEN f ELSE GetF(a)
    /\ ctor' = <<a, b>>
    /\ last' = Call(how, None, NoCount, None, <<>>)
    /\ UNCHANGED <<raw, params, rng>>

Init0(a, b, f) ==
    /\ raw = <<None, None>>
    /\ params = <<None, None>>
    /\ alpha = a
    /\ beta = b
    /\ F = (IF f # "none" THEN f ELSE GetF(a))
    /\ ctor = <<a, b>>
    /\ rng = 0
    /\ last = Call("__init__", None, NoCount, None, <<>>)
    /\ memo = NoMemo

\* distr_cls(*args) on what domain_map returned
ConstructFromParams ==
    /\ params # <<None, None>>
    /\ Construct(params[1], params[2], "none", "distr_cls")

(***************************************************************************)
(* The methods of Beta.                                                    *)
(***************************************************************************)
Query(op, x, out) ==
    /\ Exists
    /\ last' = Call(op, x, NoCount, out, <<>>)
    /\ UNCHANGED <<raw, params, alpha, beta, F, ctor, rng>>

\* args with the two tensors exchanged
CallArgsSwapped == Query("args", None, <<beta, alpha>>)

\* mean computed in place: alpha is overwritten by alpha + beta
CallMeanInPlace ==
    /\ Exists
    /\ alpha' = TAdd(alpha, beta)
    /\ last' = Call("mean", None, NoCount, Mean(alpha, beta), <<>>)
    /\ UNCHANGED <<raw, params, beta, F, ctor, rng>>

CallBatchShape == Query("batch_shape", None, BatchShapeOf(alpha))
CallEventShape == Query("event_shape", None, <<>>)
CallEventDim == Query("event_dim", None, 0)
CallLogProb(x) == Query("log_prob", x, LogProb(alpha, beta, x))
CallMean == Query("mean", None, Mean(alpha, beta))
CallVariance == Query("variance", None, Variance(alpha, beta))
CallStddev == Query("stddev", None, Stddev(alpha, beta))
CallArgs == Query("args", None, <<alpha, beta>>)

\* F.sample_gamma(alpha=a, beta=b): one backend call; the draw of the r-th
\* repetition takes its elements from the pair g in turn
SampleGamma(a, b, g, r) ==
    [alpha |-> a, beta |-> b,
     out |-> Tensor(a.shape, [i \in 1 .. Len(a.data) |-> g[1 + ((i + r) % 2)]])]

\* the two sampler calls of one run of s(alpha, beta)
DrawCalls(a, b, gx, gy, r) ==
    <<SampleGamma(a, OnesLike(a), gx, r), SampleGamma(b, OnesLike(b), gy, r)>>

RECURSIVE SampleCalls(_, _, _, _, _)
SampleCalls(a, b, gx, gy, reps) ==
    IF reps = 0 THEN <<>>
    ELSE SampleCalls(a, b, gx, gy, reps - 1) \o DrawCalls(a, b, gx, gy, reps)

\* _sample_multiple: one run of s, or num_samples runs stacked on a new
\* leading axis
SampleMultiple(calls, n) ==
    LET rows == [r \in 1 .. (Len(calls) \div 2) |->
                    GammaRatio(calls[2 * r - 1].out, calls[2 * r].out)]
    IN  IF n = NoCount THEN rows[1]
        ELSE IF \E r \in 1 .. Len(rows) : rows[r] = Raised THEN Raised
        ELSE Stack(rows)

\* sample that does not pass num_samples on
CallSampleOnce(n, gx, gy) ==
    LET calls == SampleCalls(alpha, beta, gx, gy, 1)
    IN  /\ Exists
        /\ rng + 2 <= MaxRng
        /\ rng' = rng + 2
        /\ last' = Call("sample", None, n, SampleMultiple(calls, NoCount), calls)
        /\ UNCHANGED <<raw, params, alpha, beta, F, ctor>>

CallSample(n, gx, gy) ==
    LET reps == IF n = NoCount THEN 1 ELSE n
        calls == SampleCalls(alpha, beta, gx, gy, reps)
    IN  /\ Exists
        /\ rng + 2 * reps <= MaxRng
        /\ rng' = rng + 2 * reps
        /\ last' = Call("sample", None, n, SampleMultiple(calls, n), calls)
        /\ UNCHANGED <<raw, params, alpha, beta, F, ctor>>

(***************************************************************************)
(* The history variable: the first call other than sample on an instance.  *)
(***************************************************************************)
PureOps == {"batch_shape", "event_shape", "event_dim", "log_prob", "mean",
            "variance", "stddev", "args"}

Remember(m, l) ==
    IF l.op \in {"__init__", "distr_cls"} THEN NoMemo
    ELSE IF l.op \notin PureOps THEN m
    ELSE IF m.op = "none" THEN [op |-> l.op, x |-> l.x, out |-> l.out, again |-> FALSE]
    ELSE IF m.op = l.op /\ m.x = l.x THEN [m EXCEPT !.again = TRUE]
    ELSE m

(***************************************************************************)
(* Inputs.                                                                 *)
(***************************************************************************)
\* a number so much larger than 1.0 that adding 1.0 does not change it
Big == Pow2(MantBits + 1) * One
\* the largest number below 1.0
BelowOne == One - Pow2(EMinNeg - 1)

Counts == {NoCount} \cup (1 .. MaxSamples)

LifeRaws == {<<Tensor(<<2, 1>>, <<0 - MaxFinite, One>>), Tensor(<<2, 1>>, <<0, 0 - One>>)>>,
             <<Tensor(<<1, 1>>, <<One>>), Tensor(<<1, 2>>, <<0, 0>>)>>}
LifeParams == {Fill(<<1>>, One), Tensor(<<2>>, <<Half, Big>>)}
LifeXs == {Fill(<<1>>, Half), Tensor(<<2>>, <<0, BelowOne>>)}
LifeDraws == {<<One, Big>>, <<1, One>>}

InitLife ==
    /\ raw = <<None, None>>
    /\ params = <<None, None>>
    /\ alpha = None
    /\ beta = None
    /\ F = "none"
    /\ ctor = <<None, None>>
    /\ rng = 0
    /\ last = NoCall
    /\ memo = NoMemo

Observe == memo' = Remember(memo, last')

Next ==
    \/ \E r \in LifeRaws : DomainMapCall(r[1], r[2]) /\ Observe
    \/ ConstructFromParams /\ Observe
    \/ \E a \in LifeParams, b \in LifeParams, f \in {"none", "mx.nd"} :
           Construct(a, b, f, "__init__") /\ Observe
    \/ CallBatchShape /\ Observe
    \/ CallEventShape /\ Observe
    \/ CallEventDim /\ Observe
    \/ \E x \in LifeXs : CallLogProb(x) /\ Observe
    \/ CallMean /\ Observe
    \/ CallVariance /\ Observe
    \/ CallStddev /\ Observe
    \/ \E n \in Counts, gx \in LifeDraws, gy \in LifeDraws :
           CallSample(n, gx, gy) /\ Observe
    \/ CallArgs /\ Observe

Init == InitLife

Spec == Init /\ [][Next]_vars

(***************************************************************************)
(* Specifications for the closed forms: the instance is drawn at the       *)
(* start and the methods are applied to it.                                *)
(***************************************************************************)
Positive(v) == IsFinite(v) /\ v > 0
AllPositive(t) == \A i \in 1 .. Len(t.data) : Positive(t.data[i])

\* every number >= 0 of the format, as a one-element tensor
StatParams == {Fill(<<1>>, v) : v \in RepNonNeg}

InitStats == \E a \in StatParams, b \in StatParams : Init0(a, b, "none")

NextStats ==
    \/ CallMean /\ UNCHANGED memo
    \/ CallVariance /\ UNCHANGED memo
    \/ CallStddev /\ UNCHANGED memo

SpecStats == InitStats /\ [][NextStats]_vars

\* C1 (as amended): for finite alpha, beta > 0, every element of mean lies
\* in the closed interval [0, 1], and every element of variance is a finite
\* number >= 0 or NaN.
C1_MeanVarianceRange ==
    (Exists /\ AllPositive(alpha) /\ AllPositive(beta)) =>
        /\ last.op = "mean" =>
               \A i \in 1 .. Len(last.out.data) :
                   0 <= last.out.data[i] /\ last.out.data[i] <= One
        /\ last.op = "variance" =>
               \A i \in 1 .. Len(last.out.data) :
                   \/ IsNaN(last.out.data[i])
                   \/ (IsFinite(last.out.data[i]) /\ last.out.data[i] >= 0)

C1_Witness ==
    /\ AllPositive(alpha) /\ AllPositive(beta)
    /\ last.op = "mean"
    /\ alpha.data[1] = Big /\ beta.data[1] = One
    /\ last.out.data[1] = One

\* x < m * (1 - m) for numbers x, m of the format, 0 <= m <= 1, exactly
BelowSpread(x, m) == Positive(x) /\ x < One /\ x * One < m * (One - m)

\* C1 (as stated): for alpha, beta > 0, mean lies strictly between 0 and 1,
\* and variance is strictly positive and strictly less than mean * (1 - mean).
C1_Original ==
    (Exists /\ AllPositive(alpha) /\ AllPositive(beta)) =>
        /\ last.op = "mean" =>
               \A i \in 1 .. Len(last.out.data) :
                   0 < last.out.data[i] /\ last.out.data[i] < One
        /\ last.op = "variance" =>
               \A i \in 1 .. Len(last.out.data) :
                   /\ Positive(last.out.data[i])
                   /\ BelowSpread(last.out.data[i], Mean(alpha, beta).data[i])

(***************************************************************************)
(* Specification for log_prob and the shapes of the results: instances of  *)
(* several shapes (alpha and beta of one shape, and of two), arguments x   *)
(* inside and outside (0, 1).                                              *)
(***************************************************************************)
QueryParams ==
    {Fill(<<1>>, v) : v \in {0, Epsilon, Half, One, Two, Big}}
      \cup {Tensor(<<2>>, <<One, One>>), Tensor(<<2>>, <<Half, Two>>),
            Tensor(<<2>>, <<Epsilon, Big>>), Tensor(<<2>>, <<One, 0>>),
            Fill(<<2, 1>>, One), Fill(<<3>>, One)}

QueryXs ==
    {Fill(<<1>>, v) : v \in {NegInf, 0 - One, 0, 1, Half, BelowOne, One, Two, PosInf}}
      \cup {Tensor(<<2>>, <<Half, One>>), Tensor(<<2>>, <<0, BelowOne>>),
            Tensor(<<2>>, <<1, Half>>), Tensor(<<2, 1>>, <<Half, Two>>),
            Fill(<<3>>, Half)}

InitQuery == \E a \in QueryParams, b \in QueryParams : Init0(a, b, "none")

NextQuery ==
    \/ \E x \in QueryXs : CallLogProb(x) /\ UNCHANGED memo
    \/ CallMean /\ UNCHANGED memo
    \/ CallVariance /\ UNCHANGED memo
    \/ CallBatchShape /\ UNCHANGED memo

SpecQuery == InitQuery /\ [][NextQuery]_vars

AllOnes(t) == \A i \in 1 .. Len(t.data) : t.data[i] = One
InUnitInterval(v) == IsFinite(v) /\ 0 < v /\ v < One
Distance(a, b) == Abs(a - b)
\* v is the number of the format nearest to the fraction n / d
NearestTo(v, n, d) ==
    /\ v \in RepNonNeg
    /\ \A w \in RepNonNeg : Distance(d * v, n * One) <= Distance(d * w, n * One)

\* C5: for Beta(alpha=1, beta=1), mean is 1/2, variance is 1/12 (the number
\* of the tensor's format nearest to it) and log_prob(x) is 0 wherever x lies
\* strictly between 0 and 1.
C5_UniformCase ==
    (Exists /\ AllOnes(alpha) /\ AllOnes(beta) /\ alpha.shape = beta.shape) =>
        /\ last.op = "mean" =>
               /\ IsTensor(last.out)
               /\ \A i \in 1 .. Len(last.out.data) : last.out.data[i] = Half
        /\ last.op = "variance" =>
               /\ IsTensor(last.out)
               /\ \A i \in 1 .. Len(last.out.data) : NearestTo(last.out.data[i], 1, 12)
        /\ (last.op = "log_prob" /\ Compatible(last.x.shape, alpha.shape)) =>
               /\ IsTensor(last.out)
               /\ \A i \in 1 .. Len(last.out.data) :
                      InUnitInterval(At(last.x, last.out.shape, i))
                          => last.out.data[i] = 0

C5_Witness ==
    /\ AllOnes(alpha) /\ AllOnes(beta)
    /\ last.op = "log_prob"
    /\ last.x = Tensor(<<2>>, <<1, Half>>)
    /\ last.out = Fill(<<2>>, 0)

\* C7: for alpha, beta > 0, log_prob(x) does not raise whatever the values
\* of x are, and wherever x <= 0 or x >= 1 the result is +inf, -inf or NaN.
C7_OutOfDomainNotFinite ==
    (Exists /\ last.op = "log_prob" /\ AllPositive(alpha) /\ AllPositive(beta)
       /\ Compatible(alpha.shape, beta.shape)
       /\ Compatible(BroadcastShape(alpha.shape, beta.shape), last.x.shape)) =>
        /\ IsTensor(last.out)
        /\ \A i \in 1 .. Len(last.out.data) :
               LET xi == At(last.x, last.out.shape, i)
               IN  (~IsNaN(xi) /\ (xi <= 0 \/ xi >= One)) => ~IsFinite(last.out.data[i])

C7_Witness ==
    /\ last.op = "log_prob"
    /\ alpha = Tensor(<<2>>, <<Half, Two>>) /\ beta = Tensor(<<2>>, <<One, One>>)
    /\ last.x = Tensor(<<2>>, <<Half, One>>)
    /\ IsFinite(last.out.data[1])
    /\ ~IsFinite(last.out.data[2])

ShapedOps == {"log_prob", "mean", "variance"}

\* C8 (as amended): when alpha and beta have the same shape, mean and
\* variance have shape batch_shape, and so has log_prob(x) for every x whose
\* shape broadcasts to batch_shape.
C8_ShapeIsBatchShape ==
    (Exists /\ last.op \in ShapedOps /\ alpha.shape = beta.shape
       /\ (last.op = "log_prob" =>
              /\ Compatible(last.x.shape, alpha.shape)
              /\ BroadcastShape(last.x.shape, alpha.shape) = alpha.shape)) =>
        /\ IsTensor(last.out)
        /\ last.out.shape = BatchShapeOf(alpha)

C8_Witness ==
    /\ last.op = "log_prob"
    /\ alpha.shape = <<2>> /\ beta.shape = <<2>>
    /\ last.x.shape = <<1>>
    /\ last.out.shape = <<2>>

\* C8 (as stated): for every alpha and beta the constructor accepts and
\* every x log_prob accepts, the results of log_prob, mean and variance have
\* shape batch_shape.
C8_Original ==
    (Exists /\ last.op \in ShapedOps) =>
        (IsTensor(last.out) => last.out.shape = BatchShapeOf(alpha))

(***************************************************************************)
(* Specification for sample: the instance is drawn at the start; each call *)
(* picks num_samples and what the backend's Gamma sampler returns.         *)
(***************************************************************************)
SampleParams ==
    {Fill(<<1>>, One), Tensor(<<2>>, <<Half, Big>>), Fill(<<2, 1>>, One),
     Fill(<<3>>, Two)}

SampleDraws ==
    {<<0, One>>, <<1, Big>>, <<One, One>>, <<Big, One>>}

InitSample == \E a \in SampleParams, b \in SampleParams : Init0(a, b, "none")

NextSample ==
    \E n \in Counts, gx \in SampleDraws, gy \in SampleDraws :
        CallSample(n, gx, gy) /\ UNCHANGED memo

SpecSample == InitSample /\ [][NextSample]_vars

Repetitions(n) == IF n = NoCount THEN 1 ELSE n

\* C2: for alpha and beta of one shape, sample(num_samples=N) has shape
\* (N, *batch_shape) and sample() has shape batch_shape.
C2_SampleShape ==
    (Exists /\ last.op = "sample" /\ alpha.shape = beta.shape) =>
        /\ IsTensor(last.out)
        /\ last.n = NoCount => last.out.shape = BatchShapeOf(alpha)
        /\ last.n # NoCount => last.out.shape = <<last.n>> \o BatchShapeOf(alpha)

C2_Witness ==
    /\ last.op = "sample"
    /\ alpha.shape = <<2, 1>> /\ beta.shape = <<2, 1>>
    /\ last.n = MaxSamples
    /\ last.out.shape = <<MaxSamples, 2, 1>>

\* the elements of the r-th run of s that meet at place i of its result
DrawnX(r, i) ==
    At(last.calls[2 * r - 1].out,
       BroadcastShape(alpha.shape, beta.shape), i)
DrawnY(r, i) ==
    At(last.calls[2 * r].out,
       BroadcastShape(alpha.shape, beta.shape), i)
\* the element of the r-th run at place i in the result of sample
Sampled(r, i) ==
    last.out.data[(r - 1) * Prod(BroadcastShape(alpha.shape, beta.shape)) + i]

GammaRatioConstruction ==
    /\ Len(last.calls) = 2 * Repetitions(last.n)
    /\ \A r \in 1 .. Repetitions(last.n) :
           /\ last.calls[2 * r - 1].alpha = alpha
           /\ last.calls[2 * r - 1].beta = Fill(alpha.shape, One)
           /\ last.calls[2 * r].alpha = beta
           /\ last.calls[2 * r].beta = Fill(beta.shape, One)
           /\ \A i \in 1 .. Prod(BroadcastShape(alpha.shape, beta.shape)) :
                  Sampled(r, i) = FDiv(DrawnX(r, i), FAdd(DrawnX(r, i), DrawnY(r, i)))

\* C9 (as amended): sample draws X from the Gamma sampler with shape
\* parameter alpha and second parameter all ones, Y in a separate call with
\* shape parameter beta and second parameter all ones, and returns X/(X+Y)
\* elementwise; wherever both draws are finite and > 0, the returned element
\* lies in the closed interval [0, 1].
C9_RatioInClosedInterval ==
    (Exists /\ last.op = "sample" /\ IsTensor(last.out)) =>
        /\ GammaRatioConstruction
        /\ \A r \in 1 .. Repetitions(last.n) :
               \A i \in 1 .. Prod(BroadcastShape(alpha.shape, beta.shape)) :
                   (Positive(DrawnX(r, i)) /\ Positive(DrawnY(r, i))) =>
                       (0 <= Sampled(r, i) /\ Sampled(r, i) <= One)

C9_Witness ==
    /\ last.op = "sample"
    /\ IsTensor(last.out)
    /\ last.n = 2
    /\ alpha.shape = <<2>>
    /\ \E i \in 1 .. 2 : DrawnX(2, i) = One /\ DrawnY(2, i) = One /\ Sampled(2, i) = Half
    /\ \E i \in 1 .. 2 : DrawnX(2, i) = Big /\ DrawnY(2, i) = One /\ Sampled(2, i) = One

\* C9 (as stated): ... wherever both draws are > 0, the returned element
\* lies strictly between 0 and 1.
C9_Original ==
    (Exists /\ last.op = "sample" /\ IsTensor(last.out)) =>
        /\ GammaRatioConstruction
        /\ \A r \in 1 .. Repetitions(last.n) :
               \A i \in 1 .. Prod(BroadcastShape(alpha.shape, beta.shape)) :
                   (Positive(DrawnX(r, i)) /\ Positive(DrawnY(r, i))) =>
                       (0 < Sampled(r, i) /\ Sampled(r, i) < One)

(***************************************************************************)
(* Specification for domain_map: the raw tensors are drawn at the start,   *)
(* domain_map is applied to them and the instance is built from what it    *)
(* returns.                                                                *)
(***************************************************************************)
RawValues == {NegInf, 0 - MaxFinite, 0 - One, 0, One, MaxFinite, PosInf}

RawTensors ==
    {Fill(<<1, 1>>, v) : v \in RawValues}
      \cup {Tensor(<<2, 1>>, <<u, v>>) : u \in RawValues, v \in RawValues}
      \cup {Fill(<<1, 2>>, 0), Fill(<<2, 1, 1>>, 0 - MaxFinite)}

InitDomainMap ==
    /\ raw \in RawTensors \X RawTensors
    /\ params = <<None, None>>
    /\ alpha = None
    /\ beta = None
    /\ F = "none"
    /\ ctor = <<None, None>>
    /\ rng = 0
    /\ last = NoCall
    /\ memo = NoMemo

NextDomainMap ==
    \/ last.op = "none" /\ DomainMapCall(raw[1], raw[2]) /\ UNCHANGED memo
    \/ ConstructFromParams /\ UNCHANGED memo
    \/ CallBatchShape /\ UNCHANGED memo

SpecDomainMap == InitDomainMap /\ [][NextDomainMap]_vars

Front(sh) == SubSeq(sh, 1, Len(sh) - 1)
Returned == params # <<None, None>>

\* C3: every element domain_map returns is softplus(raw) + 1e-8 of the raw
\* element at its place in the same input, is > 0 and is >= 1e-8, however
\* negative the raw element.
C3_DomainMapPositive ==
    (last.op = "domain_map" /\ Returned) =>
        \A k \in 1 .. 2 :
            \A i \in 1 .. Len(last.out[k].data) :
                /\ last.out[k].data[i] = FAdd(FSoftplus(raw[k].data[i]), Epsilon)
                /\ ~IsNaN(last.out[k].data[i])
                /\ last.out[k].data[i] > 0
                /\ last.out[k].data[i] >= Epsilon

C3_Witness ==
    /\ last.op = "domain_map"
    /\ Returned
    /\ raw[1] = Tensor(<<2, 1>>, <<0 - MaxFinite, One>>)
    /\ raw[2] = Fill(<<1, 1>>, PosInf)
    /\ last.out[1].data[1] = Epsilon
    /\ last.out[1].data[2] > One
    /\ last.out[2].data[1] = PosInf

\* C4: for raw inputs of shape (*batch_shape, 1), domain_map returns
\* (alpha, beta) in that order, alpha made from the raw alpha alone and beta
\* from the raw beta alone, each of shape batch_shape; the Beta built from
\* the pair positionally has that batch_shape.
C4_SqueezedInOrder ==
    /\ (last.op = "domain_map" /\ raw[1].shape[Len(raw[1].shape)] = 1
          /\ raw[2].shape[Len(raw[2].shape)] = 1) =>
           /\ Returned
           /\ \A k \in 1 .. 2 :
                  /\ params[k].shape = Front(raw[k].shape)
                  /\ params[k] = SqueezeLast(TAddScalar(Softplus(raw[k]), Epsilon))
    /\ last.op = "distr_cls" =>
           /\ alpha = params[1] /\ beta = params[2]
           /\ alpha.shape = Front(raw[1].shape)
           /\ beta.shape = Front(raw[2].shape)
           /\ BatchShapeOf(alpha) = Front(raw[1].shape)

C4_Witness ==
    /\ last.op = "distr_cls"
    /\ raw[1] = Tensor(<<2, 1>>, <<0 - One, One>>)
    /\ raw[2] = Tensor(<<2, 1>>, <<0, MaxFinite>>)
    /\ alpha.shape = <<2>>
    /\ alpha.data[1] < alpha.data[2]
    /\ beta.data[2] = MaxFinite

(***************************************************************************)
(* Properties of the whole life of an instance, under Spec.                *)
(***************************************************************************)
\* C6: whatever methods have been called, args is the two-element list
\* [alpha, beta] of the tensors the constructor was given, unmodified.
C6_ArgsAreConstructorTensors ==
    Exists =>
        /\ alpha = ctor[1] /\ beta = ctor[2]
        /\ last.op = "args" =>
               /\ Len(last.out) = 2
               /\ last.out[1] = ctor[1]
               /\ last.out[2] = ctor[2]

C6_Witness ==
    /\ last.op = "args"
    /\ rng > 0
    /\ memo.op = "log_prob"
    /\ ctor[1] # ctor[2]

\* the remembered call, made again, returns what it returned
SameResultAgain ==
    (memo.again /\ last.op = memo.op /\ last.x = memo.x) => last.out = memo.out

\* C10: a call of a method other than sample leaves alpha, beta, F and the
\* backend's random-number-generator state as they were and, made again on
\* the same instance with the same argument, returns the same result; only
\* sample changes the random-number-generator state.
C10_PureExceptSample ==
    [][/\ last'.op \in PureOps => UNCHANGED <<alpha, beta, F, rng>>
       /\ rng' # rng => last'.op = "sample"
       /\ SameResultAgain']_vars

C10_Witness ==
    /\ memo.again
    /\ memo.op = "log_prob"
    /\ last.op = "log_prob" /\ last.x = memo.x
    /\ rng > 0
=============================================================================
